---------------------------- MODULE Spec2Model ----------------------------
(* Model of the portfolio backend (src/main.py, src/schemas.py).            *)
(*                                                                          *)
(* Python values are tagged records [t |-> type, v |-> payload]:            *)
(*   "none" None, "str" text, "url" text that parses as a URL,              *)
(*   "oid" a storage identifier, "dt" a date/time, "list" a list.           *)
(* A document (dict) is a function from field names to values.              *)
(* Texts of exceptions are sequences of character codes, so that cutting a  *)
(* text to a length is a real operation.                                    *)
(* The emoji that prefix the diagnostic strings of test_database are left   *)
(* out of the string literals (the parser accepts ASCII only).              *)
EXTENDS Integers, Sequences, FiniteSets

VARIABLES projects, submissions, nextOid, req, issued, last

vars == <<projects, submissions, nextOid, req, issued, last>>

-----------------------------------------------------------------------------
(* Bounds of the model *)

MaxLimit == 3
NReq == 2
MaxErrLen == 52
MaxColls == 11

(* Program constants *)

ErrCut == 50
CollCut == 10

-----------------------------------------------------------------------------
(* Python values *)

NoneVal == [t |-> "none", v |-> 0]
StrVal(n) == [t |-> "str", v |-> n]
UrlVal(n) == [t |-> "url", v |-> n]
Oid(n) == [t |-> "oid", v |-> n]
Dt(n) == [t |-> "dt", v |-> n]
ListVal(n) == [t |-> "list", v |-> n]
EmptyStr == StrVal(0)

Min(a, b) == IF a <= b THEN a ELSE b
Max(a, b) == IF a >= b THEN a ELSE b

TypeCode(t) ==
  CASE t = "none" -> 1
    [] t = "oid" -> 2
    [] t = "dt" -> 3
    [] t = "list" -> 4
    [] OTHER -> 0

(* str(x): a text stays itself, any other value becomes the text of its repr *)
PyStr(x) ==
  IF x.t \in {"str", "url"} THEN StrVal(x.v) ELSE StrVal(1000 * TypeCode(x.t) + x.v)

(* hasattr(x, "isoformat"): date/time values have the method *)
HasIsoformat(x) == x.t = "dt"

(* x.isoformat(): the ISO-8601 text of a date/time *)
Isoformat(x) == StrVal(5000 + x.v)

(* dict operations *)
EmptyDict == <<>>
DictGet(d, k) == IF k \in DOMAIN d THEN d[k] ELSE NoneVal
DictGetDefault(d, k, def) == IF k \in DOMAIN d THEN d[k] ELSE def
DictPop(d, k) == [x \in (DOMAIN d) \ {k} |-> d[x]]
DictSet(d, k, val) == [x \in (DOMAIN d) \cup {k} |-> IF x = k THEN val ELSE d[x]]

(* seq[:n] of Python, n possibly negative *)
PySliceTo(s, n) ==
  IF n >= 0 THEN SubSeq(s, 1, Min(n, Len(s)))
  ELSE SubSeq(s, 1, Max(Len(s) + n, 0))

(* list(reversed(s)) *)
Reversed(s) == [i \in 1..Len(s) |-> s[Len(s) + 1 - i]]

(* the text of an exception, n characters long *)
Text(n) == [i \in 1..n |-> i]
ErrTexts == {Text(n) : n \in {0, 1, ErrCut - 1, ErrCut, ErrCut + 1, MaxErrLen}}

(* what a storage call may do besides returning: raise, with some text *)
NoFault == [raised |-> FALSE, text |-> <<>>]
Raise(txt) == [raised |-> TRUE, text |-> txt]
FetchFaults == {NoFault, Raise(Text(1)), Raise(Text(MaxErrLen))}

-----------------------------------------------------------------------------
(* _serialize *)

IsoKeys == <<"created_at", "updated_at">>

RECURSIVE ConvertDates(_, _)
ConvertDates(d, i) ==
  IF i > Len(IsoKeys) THEN d
  ELSE LET k == IsoKeys[i]
       IN IF k \in DOMAIN d /\ HasIsoformat(d[k])
          THEN ConvertDates(DictSet(d, k, Isoformat(d[k])), i + 1)
          ELSE ConvertDates(d, i + 1)

(* the copy d = dict(doc) with "_id" popped and "id" set *)
RenameId(doc) ==
  LET id == DictGet(doc, "_id")
      d == DictPop(doc, "_id")
  IN IF id # NoneVal THEN DictSet(d, "id", PyStr(id)) ELSE d

(* A call of _serialize: the dict it returns and the argument object as the *)
(* call leaves it (d = dict(doc) is a copy, so the argument is untouched).  *)
SerializeAliased(doc) ==
  LET o == IF DOMAIN doc = {} THEN EmptyDict ELSE ConvertDates(RenameId(doc), 1)
  IN [out |-> o, arg |-> IF DOMAIN doc = {} THEN doc ELSE o]

SerializeCall(doc) ==
  IF DOMAIN doc = {} THEN [out |-> EmptyDict, arg |-> doc]
  ELSE [out |-> ConvertDates(RenameId(doc), 1), arg |-> doc]

_serialize(doc) == SerializeCall(doc).out

SerializeAll(docs) == [i \in 1..Len(docs) |-> _serialize(docs[i])]
HeldAfter(docs) == [i \in 1..Len(docs) |-> SerializeCall(docs[i]).arg]

-----------------------------------------------------------------------------
(* Storage collaborator (database.py is not part of the sources) *)

Collection(kind) == IF kind = "project" THEN projects ELSE submissions

(* get_documents(kind, {}, limit): up to limit documents, in storage order *)
get_documents(kind, limit) ==
  SubSeq(Collection(kind), 1, Min(Max(limit, 0), Len(Collection(kind))))

(* a storage call as the handler sees it: the documents, or the exception *)
Fetch(kind, limit, fault) ==
  IF fault.raised THEN [ok |-> FALSE, docs |-> <<>>, err |-> fault.text]
  ELSE [ok |-> TRUE, docs |-> get_documents(kind, limit), err |-> <<>>]

(* create_document(kind, item): the stored document and the id returned *)
NewDocument(item) ==
  [k \in (DOMAIN item) \cup {"_id", "created_at", "updated_at"} |->
     IF k = "_id" THEN Oid(nextOid)
     ELSE IF k \in {"created_at", "updated_at"} THEN Dt(nextOid)
     ELSE item[k]]

NewId == PyStr(Oid(nextOid))

-----------------------------------------------------------------------------
(* HTTP outcomes *)

Ok200(items) == [status |-> 200, items |-> items, detail |-> <<>>]
(* HTTPException(status_code=500, detail=str(e)) *)
Http500(txt) == [status |-> 500, items |-> <<>>, detail |-> txt]

-----------------------------------------------------------------------------
(* GET /api/projects, GET /api/submissions *)

list_projects_unlimited(limit, fault) ==
  LET r == Fetch("project", Len(projects), fault)
  IN [fetched |-> r.docs,
      held |-> HeldAfter(r.docs),
      resp |-> IF r.ok THEN Ok200(SerializeAll(r.docs)) ELSE Http500(r.err)]

list_projects(limit, fault) ==
  LET r == Fetch("project", limit, fault)
  IN [fetched |-> r.docs,
      held |-> HeldAfter(r.docs),
      resp |-> IF r.ok THEN Ok200(SerializeAll(r.docs)) ELSE Http500(r.err)]

list_submissions(limit, fault) ==
  LET r == Fetch("submission", limit, fault)
  IN [fetched |-> r.docs,
      held |-> HeldAfter(r.docs),
      resp |-> IF r.ok THEN Ok200(SerializeAll(r.docs)) ELSE Http500(r.err)]

-----------------------------------------------------------------------------
(* GET /api/portfolio *)

NormalizeProject(d) ==
  [id |-> DictGet(d, "id"),
   type |-> "project",
   title |-> DictGet(d, "title"),
   description |-> DictGet(d, "description"),
   image |-> DictGet(d, "image_url"),
   demo |-> DictGet(d, "demo_url"),
   source |-> DictGet(d, "source_url"),
   author |-> DictGet(d, "author"),
   tags |-> DictGetDefault(d, "tags", ListVal(0))]

NormalizeSubmission(d) ==
  [id |-> DictGet(d, "id"),
   type |-> "submission",
   title |-> DictGet(d, "title"),
   description |-> DictGet(d, "description"),
   image |-> DictGet(d, "thumbnail"),
   demo |-> DictGet(d, "link"),
   source |-> NoneVal,
   author |-> DictGet(d, "name"),
   tags |-> DictGetDefault(d, "tags", ListVal(0))]

NormalizedSubmissionsFirst(ps, ss) ==
  [i \in 1..Len(ss) |-> NormalizeSubmission(_serialize(ss[i]))]
  \o [i \in 1..Len(ps) |-> NormalizeProject(_serialize(ps[i]))]

(* the list `normalized` after the two loops *)
Normalized(ps, ss) ==
  [i \in 1..Len(ps) |-> NormalizeProject(_serialize(ps[i]))]
  \o [i \in 1..Len(ss) |-> NormalizeSubmission(_serialize(ss[i]))]

CutThenReverse(normalized, limit) == Reversed(PySliceTo(normalized, limit))

(* normalized = list(reversed(normalized)); normalized[:limit] *)
OrderAndCut(normalized, limit) == PySliceTo(Reversed(normalized), limit)

combined_portfolio_partial(limit, faultP, faultS) ==
  LET rp == Fetch("project", limit, faultP)
      rs == Fetch("submission", limit, faultS)
  IN IF ~rp.ok
     THEN [fetchedP |-> <<>>, fetchedS |-> <<>>, held |-> <<>>,
           resp |-> Http500(rp.err)]
     ELSE [fetchedP |-> rp.docs, fetchedS |-> rs.docs,
           held |-> HeldAfter(rp.docs \o rs.docs),
           resp |-> Ok200(OrderAndCut(Normalized(rp.docs, rs.docs), limit))]

combined_portfolio(limit, faultP, faultS) ==
  LET rp == Fetch("project", limit, faultP)
      rs == Fetch("submission", limit, faultS)
  IN IF ~rp.ok
     THEN [fetchedP |-> <<>>, fetchedS |-> <<>>, held |-> <<>>,
           resp |-> Http500(rp.err)]
     ELSE IF ~rs.ok
     THEN [fetchedP |-> rp.docs, fetchedS |-> <<>>, held |-> rp.docs,
           resp |-> Http500(rs.err)]
     ELSE [fetchedP |-> rp.docs, fetchedS |-> rs.docs,
           held |-> HeldAfter(rp.docs \o rs.docs),
           resp |-> Ok200(OrderAndCut(Normalized(rp.docs, rs.docs), limit))]

-----------------------------------------------------------------------------
(* POST /api/submit: the Submission schema and the handler *)

RequiredFieldsNameOnly == {"name"}

RequiredFields == {"name", "title"}
UrlFields == {"link", "thumbnail"}
OptionalFields == {"description", "link", "thumbnail"}

(* validation of a request body against Submission *)
SubmissionValid(body) ==
  /\ RequiredFields \subseteq DOMAIN body
  /\ \A k \in RequiredFields : body[k].t \in {"str", "url"}
  /\ \A k \in (DOMAIN body) \cap OptionalFields : body[k].t # "none" =>
       IF k \in UrlFields THEN body[k].t = "url" ELSE body[k].t \in {"str", "url"}
  /\ "tags" \in DOMAIN body => body["tags"].t = "list"

(* the Submission instance the handler receives: defaults filled in *)
ParseSubmission(body) ==
  [k \in RequiredFields \cup OptionalFields \cup {"tags"} |->
     IF k \in DOMAIN body THEN body[k]
     ELSE IF k = "tags" THEN ListVal(0)
     ELSE NoneVal]

(* the framework's answer to a body that fails validation *)
Http422 == [status |-> 422, success |-> FALSE, id |-> NoneVal, detail |-> <<>>]

(* the collection submit_portfolio writes to *)
SubmitKindProject == "project"

SubmitKind == "submission"

(* the handler's answer, from what create_document returned or raised *)
SubmitAnswerTitle(item, ret) ==
  IF ret.ok
  THEN [status |-> 200, success |-> TRUE, id |-> PyStr(DictGet(item, "title")),
        detail |-> <<>>]
  ELSE [status |-> 500, success |-> FALSE, id |-> NoneVal, detail |-> ret.err]

SubmitAnswer(item, ret) ==
  IF ret.ok
  THEN [status |-> 200, success |-> TRUE, id |-> ret.id, detail |-> <<>>]
  ELSE [status |-> 500, success |-> FALSE, id |-> NoneVal, detail |-> ret.err]

-----------------------------------------------------------------------------
(* GET /test *)

NoAnswer == [database |-> "Not Available", err |-> <<>>,
             connection_status |-> "Not Connected", collections |-> <<>>]

test_database_uncaught(db, nameFault, listing, envUrl, envName) ==
  [raised |-> db # "none" /\ (nameFault.raised \/ listing.fault.raised),
   backend |-> "Running",
   database |-> IF db = "none" THEN "Available but not initialized"
                ELSE "Connected & Working",
   err |-> <<>>,
   database_url |-> IF envUrl THEN "Set" ELSE "Not Set",
   database_name |-> IF envName THEN "Set" ELSE "Not Set",
   connection_status |-> IF db = "none" THEN "Not Connected" ELSE "Connected",
   collections |-> IF db = "none" THEN <<>> ELSE PySliceTo(listing.names, CollCut)]

(* db: "none" or "handle"; nameFault: what reading db.name does;            *)
(* listing: [fault, names], what db.list_collection_names() does;           *)
(* envUrl, envName: whether DATABASE_URL and DATABASE_NAME are set          *)
test_database(db, nameFault, listing, envUrl, envName) ==
  LET core ==
        IF db = "none"
        THEN [NoAnswer EXCEPT !.database = "Available but not initialized"]
        ELSE IF nameFault.raised
        THEN [NoAnswer EXCEPT !.database = "Error: ",
                              !.err = PySliceTo(nameFault.text, ErrCut)]
        ELSE IF listing.fault.raised
        THEN [NoAnswer EXCEPT !.database = "Connected but Error: ",
                              !.err = PySliceTo(listing.fault.text, ErrCut),
                              !.connection_status = "Connected"]
        ELSE [NoAnswer EXCEPT !.database = "Connected & Working",
                              !.connection_status = "Connected",
                              !.collections = PySliceTo(listing.names, CollCut)]
  IN [raised |-> FALSE,
      backend |-> "Running",
      database |-> core.database,
      err |-> core.err,
      database_url |-> IF envUrl THEN "Set" ELSE "Not Set",
      database_name |-> IF envName THEN "Set" ELSE "Not Set",
      connection_status |-> core.connection_status,
      collections |-> core.collections]

-----------------------------------------------------------------------------
(* Documents the collections hold before the service starts.  Storage      *)
(* enforces no schema: a seeded project may carry any field.               *)

FirstOid == 10

P1 == [_id |-> Oid(1), title |-> StrVal(1), description |-> StrVal(2),
       image_url |-> UrlVal(1), demo_url |-> UrlVal(2), source_url |-> UrlVal(3),
       author |-> StrVal(3), tags |-> ListVal(1),
       created_at |-> Dt(5), updated_at |-> Dt(6)]
P2 == [_id |-> Oid(2), title |-> StrVal(4), created_at |-> Dt(9),
       published_at |-> Dt(3)]
P3 == [_id |-> Oid(3), title |-> StrVal(5), author |-> NoneVal,
       created_at |-> StrVal(7), updated_at |-> Dt(1)]
P4 == [_id |-> Oid(4), title |-> StrVal(1), tags |-> ListVal(0)]
S1 == [_id |-> Oid(5), name |-> StrVal(6), title |-> StrVal(7),
       description |-> NoneVal, link |-> UrlVal(4), thumbnail |-> NoneVal,
       tags |-> ListVal(2), created_at |-> Dt(8), updated_at |-> Dt(8)]
S2 == [_id |-> Oid(6), name |-> StrVal(8), title |-> StrVal(7),
       description |-> StrVal(9), link |-> NoneVal, thumbnail |-> UrlVal(5),
       tags |-> ListVal(0), created_at |-> Dt(2), updated_at |-> Dt(4)]
S3 == [_id |-> Oid(7), name |-> StrVal(6), title |-> StrVal(1),
       description |-> NoneVal, link |-> NoneVal, thumbnail |-> NoneVal,
       tags |-> ListVal(0), created_at |-> Dt(7), updated_at |-> Dt(7)]

ProjectSeeds == {<<>>, <<P2, P1>>, <<P1, P2, P3, P4>>}
SubmissionSeeds == {<<>>, <<S1, S2>>, <<S1, S2, S3>>}

(* request bodies a client may post *)
BodyFull == [name |-> StrVal(6), title |-> StrVal(7), description |-> StrVal(9),
             link |-> UrlVal(4), thumbnail |-> UrlVal(5), tags |-> ListVal(2)]
BodyMin == [name |-> StrVal(8), title |-> StrVal(7)]
BodyNoTitle == [name |-> StrVal(6), link |-> UrlVal(4)]
BodyNoName == [title |-> StrVal(7)]
BodyBadLink == [name |-> StrVal(6), title |-> StrVal(7), link |-> StrVal(3)]
BodyNullTitle == [name |-> StrVal(6), title |-> NoneVal]
Bodies == {BodyFull, BodyMin, BodyNoTitle, BodyNoName, BodyBadLink, BodyNullTitle}

Limits == -1..MaxLimit
Requests == 1..NReq

Listings ==
  {[fault |-> NoFault, names |-> Text(n)] : n \in {0, 2, CollCut, MaxColls}}
  \cup {[fault |-> Raise(txt), names |-> <<>>] : txt \in ErrTexts}
NoListing == [fault |-> NoFault, names |-> <<>>]
NameFaults == {NoFault} \cup {Raise(txt) : txt \in ErrTexts}

Idle == [pc |-> "idle"]

Init ==
  /\ projects \in ProjectSeeds
  /\ submissions \in SubmissionSeeds
  /\ nextOid = FirstOid
  /\ req = [r \in Requests |-> Idle]
  /\ issued = <<>>
  /\ last = [op |-> "none"]

-----------------------------------------------------------------------------
(* One action per handler.  The read handlers make their storage calls and  *)
(* answer in one step; submit_portfolio is split at its storage call, so    *)
(* that the requests in flight interleave.  Requests is the set of POST     *)
(* requests the clients make, each handled once.                            *)

ListProjects(limits, faults) ==
  \E limit \in limits, fault \in faults :
    LET h == list_projects(limit, fault)
    IN /\ last' = [op |-> "list_projects", limit |-> limit, fault |-> fault,
                   fetched |-> h.fetched, held |-> h.held, resp |-> h.resp]
       /\ UNCHANGED <<projects, submissions, nextOid, req, issued>>

ListSubmissions(limits, faults) ==
  \E limit \in limits, fault \in faults :
    LET h == list_submissions(limit, fault)
    IN /\ last' = [op |-> "list_submissions", limit |-> limit, fault |-> fault,
                   fetched |-> h.fetched, held |-> h.held, resp |-> h.resp]
       /\ UNCHANGED <<projects, submissions, nextOid, req, issued>>

CombinedPortfolio(limits, faults) ==
  \E limit \in limits, faultP \in faults, faultS \in faults :
    LET h == combined_portfolio(limit, faultP, faultS)
    IN /\ last' = [op |-> "portfolio", limit |-> limit,
                   faultP |-> faultP, faultS |-> faultS,
                   fetchedP |-> h.fetchedP, fetchedS |-> h.fetchedS,
                   held |-> h.held, resp |-> h.resp]
       /\ UNCHANGED <<projects, submissions, nextOid, req, issued>>

(* a body that fails validation never reaches submit_portfolio *)
SubmitReject(r, bodies) ==
  \E body \in bodies :
    /\ req[r].pc = "idle"
    /\ ~SubmissionValid(body)
    /\ req' = [req EXCEPT ![r] = [pc |-> "done", body |-> body, calls |-> 0,
                                  resp |-> Http422]]
    /\ UNCHANGED <<projects, submissions, nextOid, issued, last>>

(* new_id = create_document("submission", item) *)
SubmitCall(r, bodies, faults) ==
  \E body \in bodies, fault \in faults :
    /\ req[r].pc = "idle"
    /\ SubmissionValid(body)
    /\ LET item == ParseSubmission(body)
       IN IF fault.raised
          THEN /\ req' = [req EXCEPT ![r] =
                            [pc |-> "called", body |-> body, calls |-> 1,
                             ret |-> [ok |-> FALSE, id |-> NoneVal,
                                      err |-> fault.text]]]
               /\ UNCHANGED <<projects, submissions, nextOid>>
          ELSE /\ req' = [req EXCEPT ![r] =
                            [pc |-> "called", body |-> body, calls |-> 1,
                             ret |-> [ok |-> TRUE, id |-> NewId, err |-> <<>>]]]
               /\ IF SubmitKind = "project"
                  THEN /\ projects' = Append(projects, NewDocument(item))
                       /\ UNCHANGED submissions
                  ELSE /\ submissions' = Append(submissions, NewDocument(item))
                       /\ UNCHANGED projects
               /\ nextOid' = nextOid + 1
    /\ UNCHANGED <<issued, last>>

(* return {"success": True, "id": new_id}, or the HTTPException *)
SubmitReturn(r) ==
  /\ req[r].pc = "called"
  /\ LET a == SubmitAnswer(ParseSubmission(req[r].body), req[r].ret)
     IN /\ req' = [req EXCEPT ![r] = [pc |-> "done", body |-> req[r].body,
                                      calls |-> req[r].calls, resp |-> a]]
        /\ issued' = IF a.status = 200 THEN Append(issued, a.id) ELSE issued
  /\ UNCHANGED <<projects, submissions, nextOid, last>>

TestDatabase(nameFaults, listings, envs) ==
  \E db \in {"none", "handle"}, nameFault \in nameFaults,
     listing \in listings \cup {NoListing}, envUrl \in envs, envName \in envs :
    /\ db = "none" => nameFault = NoFault
    /\ (db = "none" \/ nameFault.raised) <=> listing = NoListing
    /\ last' = [op |-> "test", db |-> db, nameFault |-> nameFault,
                listing |-> listing,
                resp |-> test_database(db, nameFault, listing, envUrl, envName)]
    /\ UNCHANGED <<projects, submissions, nextOid, req, issued>>

-----------------------------------------------------------------------------
(* Specifications *)

(* every handler, the read handlers with one limit and no storage fault *)
Next ==
  \/ ListProjects({MaxLimit}, {NoFault})
  \/ ListSubmissions({MaxLimit}, {NoFault})
  \/ CombinedPortfolio({MaxLimit}, {NoFault})
  \/ TestDatabase({NoFault}, {[fault |-> NoFault, names |-> Text(2)]}, {TRUE})
  \/ \E r \in Requests : SubmitReject(r, {BodyNoTitle})
  \/ \E r \in Requests : SubmitCall(r, {BodyMin}, {NoFault, Raise(Text(1))})
  \/ \E r \in Requests : SubmitReturn(r)

Spec == Init /\ [][Next]_vars

(* the read handlers, every limit and storage fault, over the seeded storage *)
NextRead ==
  \/ ListProjects(Limits, FetchFaults)
  \/ ListSubmissions(Limits, FetchFaults)
  \/ CombinedPortfolio(Limits, FetchFaults)

SpecRead == Init /\ [][NextRead]_vars

(* the diagnostic handler, every state of the storage handle *)
NextTest == TestDatabase(NameFaults, Listings, BOOLEAN)

SpecTest == Init /\ [][NextTest]_vars

(* the POST requests in flight *)
NextSubmit ==
  \/ \E r \in Requests : SubmitReject(r, Bodies)
  \/ \E r \in Requests : SubmitCall(r, Bodies, FetchFaults)
  \/ \E r \in Requests : SubmitReturn(r)

SpecSubmit == Init /\ [][NextSubmit]_vars

-----------------------------------------------------------------------------
(* Properties *)

IsListOp == last.op \in {"list_projects", "list_submissions"}
ListOk == IsListOp /\ last.resp.status = 200
PortfolioOk == last.op = "portfolio" /\ last.resp.status = 200
HasId(doc) == "_id" \in DOMAIN doc /\ doc["_id"] # NoneVal

(* the i-th item of the concatenation: normalized projects, then submissions *)
Concatenated(P, S, i) ==
  IF i <= Len(P) THEN NormalizeProject(_serialize(P[i]))
  ELSE NormalizeSubmission(_serialize(S[i - Len(P)]))

C2_EveryDateCoerced ==
  ListOk =>
    \A i \in 1..Len(last.fetched) :
      \A k \in (DOMAIN last.fetched[i]) \ {"_id"} :
        /\ k \in DOMAIN last.resp.items[i]
        /\ last.resp.items[i][k] =
             IF last.fetched[i][k].t = "dt" THEN Isoformat(last.fetched[i][k])
             ELSE last.fetched[i][k]

(* C3: the serialized form of a record that has an identifier has no "_id"   *)
(* field, has the identifier as a text under "id", and the record handed to  *)
(* _serialize is left as it was.                                             *)
C3_IdRenamed ==
  /\ ListOk =>
       /\ Len(last.resp.items) = Len(last.fetched)
       /\ last.held = last.fetched
       /\ \A i \in 1..Len(last.fetched) :
            HasId(last.fetched[i]) =>
              /\ "_id" \notin DOMAIN last.resp.items[i]
              /\ "id" \in DOMAIN last.resp.items[i]
              /\ last.resp.items[i]["id"].t = "str"
              /\ last.resp.items[i]["id"] = PyStr(last.fetched[i]["_id"])
  /\ PortfolioOk => last.held = last.fetchedP \o last.fetchedS

C3_Witness ==
  /\ ListOk
  /\ Len(last.fetched) >= 2
  /\ \A i \in 1..Len(last.fetched) : HasId(last.fetched[i])
  /\ last.resp.items[1]["id"].t = "str"

(* C4: for a limit L >= 0 a list handler answers at most L items, one per    *)
(* document storage returned and in that order: the first documents of the   *)
(* collection.                                                               *)
C4_ListAtMostLimit ==
  (ListOk /\ last.limit >= 0) =>
    LET coll == IF last.op = "list_projects" THEN projects ELSE submissions
        items == last.resp.items
    IN /\ Len(items) <= last.limit
       /\ Len(items) = Len(last.fetched)
       /\ Len(items) <= Len(coll)
       /\ \A i \in 1..Len(items) :
            /\ items[i]["id"] = PyStr(last.fetched[i]["_id"])
            /\ items[i]["id"] = PyStr(coll[i]["_id"])

C4_Witness ==
  /\ last.op = "list_projects"
  /\ last.resp.status = 200
  /\ last.limit >= 1
  /\ Len(projects) > last.limit
  /\ Len(last.resp.items) = last.limit

(* C5: when the fetch of the projects or of the submissions fails,           *)
(* combined_portfolio answers 500 with the text of the failure and no item.  *)
C5_AllOrNothing ==
  (last.op = "portfolio" /\ (last.faultP.raised \/ last.faultS.raised)) =>
    /\ last.resp.status = 500
    /\ last.resp.items = <<>>
    /\ last.resp.detail =
         IF last.faultP.raised THEN last.faultP.text ELSE last.faultS.text

(* the projects were fetched, the fetch of the submissions failed *)
C5_Witness ==
  /\ last.op = "portfolio"
  /\ ~last.faultP.raised
  /\ last.faultS.raised
  /\ last.limit >= 1
  /\ Len(last.fetchedP) >= 1
  /\ last.resp.status = 500
  /\ Len(last.resp.detail) = MaxErrLen

(* a body the Submission schema does not accept *)
Malformed(body) ==
  \/ "title" \notin DOMAIN body
  \/ "name" \notin DOMAIN body
  \/ body["title"].t \notin {"str", "url"}
  \/ body["name"].t \notin {"str", "url"}
  \/ \E k \in {"link", "thumbnail"} \cap DOMAIN body : body[k].t \notin {"url", "none"}

(* C6: a POST whose body lacks `title`, or fails validation otherwise, is    *)
(* answered with a client error (not 500) without create_document being     *)
(* called, and storage is as it was.                                         *)
C6_RejectedBeforeStorage ==
  [][\A r \in Requests :
       (req[r].pc = "idle" /\ req'[r].pc # "idle" /\ Malformed(req'[r].body)) =>
         /\ req'[r].pc = "done"
         /\ req'[r].resp.status \in 400..499
         /\ req'[r].calls = 0
         /\ projects' = projects
         /\ submissions' = submissions
         /\ nextOid' = nextOid]_vars

C6_Witness ==
  \E r \in Requests :
    /\ req[r].pc = "done"
    /\ "title" \notin DOMAIN req[r].body
    /\ req[r].resp.status = 422
    /\ req[r].calls = 0

Succeeded(r) ==
  \/ req[r].pc = "called" /\ req[r].ret.ok
  \/ req[r].pc = "done" /\ req[r].resp.status = 200

(* C7: every successful POST answers success with a non-empty id that no    *)
(* other POST, earlier or in flight, was answered with, and that names       *)
(* exactly one stored submission; the submissions stored by the service are  *)
(* one per successful create_document call.                                  *)
C7_DistinctIds ==
  /\ \A i \in 1..Len(issued) :
       /\ issued[i].t = "str"
       /\ issued[i] # EmptyStr
       /\ \A j \in 1..Len(issued) : i # j => issued[i] # issued[j]
       /\ Cardinality({j \in 1..Len(submissions) :
                         PyStr(submissions[j]["_id"]) = issued[i]}) = 1
  /\ \A r \in Requests :
       (req[r].pc = "done" /\ req[r].resp.status = 200) =>
         /\ req[r].resp.success
         /\ \E i \in 1..Len(issued) : issued[i] = req[r].resp.id
         /\ \A q \in Requests \ {r} :
              (req[q].pc = "called" /\ req[q].ret.ok) => req[q].ret.id # req[r].resp.id
  /\ Cardinality({j \in 1..Len(submissions) : submissions[j]["_id"].v >= FirstOid})
       = Cardinality({r \in Requests : Succeeded(r)})

(* two POSTs with the same title, both answered *)
C7_Witness ==
  /\ Len(issued) = 2
  /\ \E r \in Requests, q \in Requests :
       /\ r # q
       /\ req[r].pc = "done" /\ req[r].resp.status = 200
       /\ req[q].pc = "done" /\ req[q].resp.status = 200
       /\ req[r].body["title"] = req[q].body["title"]

(* C8: test_database never raises; without a storage handle `database` is    *)
(* the not-initialized text and nothing is connected; a failure of the       *)
(* listing is reported in `database` with at most 50 characters of its text; *)
(* `collections` has at most 10 names, the first ones.                       *)
C8_HealthNeverRaises ==
  last.op = "test" =>
    LET a == last.resp
        txt == last.listing.fault.text
    IN /\ ~a.raised
       /\ a.backend = "Running"
       /\ last.db = "none" =>
            /\ a.database = "Available but not initialized"
            /\ a.connection_status = "Not Connected"
            /\ a.collections = <<>>
       /\ (last.db = "handle" /\ ~last.nameFault.raised /\ last.listing.fault.raised) =>
            /\ a.database = "Connected but Error: "
            /\ Len(a.err) <= 50
            /\ Len(a.err) = Min(50, Len(txt))
            /\ \A i \in 1..Len(a.err) : a.err[i] = txt[i]
            /\ a.collections = <<>>
       /\ Len(a.err) <= 50
       /\ Len(a.collections) <= 10
       /\ (last.db = "handle" /\ ~last.nameFault.raised /\ ~last.listing.fault.raised) =>
            /\ a.database = "Connected & Working"
            /\ Len(a.collections) = Min(10, Len(last.listing.names))
            /\ \A i \in 1..Len(a.collections) : a.collections[i] = last.listing.names[i]

(* the listing failed with a text longer than 50 characters *)
C8_Witness ==
  /\ last.op = "test"
  /\ last.db = "handle"
  /\ last.listing.fault.raised
  /\ Len(last.listing.fault.text) > 50
  /\ Len(last.resp.err) = 50

(* C9: no step changes the projects; a step changes the submissions only by  *)
(* appending one document, and only when a POST makes its storage call; the  *)
(* list, portfolio and diagnostic handlers change neither collection.        *)
C9_OnlyAppend ==
  [][/\ projects' = projects
     /\ \/ submissions' = submissions
        \/ /\ Len(submissions') = Len(submissions) + 1
           /\ SubSeq(submissions', 1, Len(submissions)) = submissions
           /\ \E r \in Requests : req[r].pc = "idle" /\ req'[r].pc = "called"
     /\ last' # last => submissions' = submissions]_vars

(* a submission was created and a read handler ran after it *)
C9_Witness ==
  /\ \E j \in 1..Len(submissions) : submissions[j]["_id"].v >= FirstOid
  /\ last.op = "portfolio"
  /\ \E i \in 1..Len(last.resp.items) : last.resp.items[i].id = PyStr(Oid(FirstOid))

=============================================================================
